---- MODULE Spec2Model ----
(***************************************************************************)
(* Order submission path of the storefront.                                *)
(*   Client: the order-form script (validation, endpoint resolver, order   *)
(*   submitter, submission coordinator with its single-flight guard).      *)
(*   Server: api/orders.js (read-modify-write of the Orders Document).     *)
(* Strings are sequences of characters; URLs are sequences of tokens (a    *)
(* scheme token, host characters, "/" and whitespace).                     *)
(***************************************************************************)
EXTENDS Naturals, Sequences, FiniteSets, TLC

\* ------------------------------------------------------------------ bounds
MaxSubmits == 3      \* submit events delivered to the page
NumReq == 2          \* handler invocations of the server
MaxClock == 1        \* the last value Date.now() takes on the server

\* ----------------------------------------------------------------- strings
WS == {" ", "\t"}

RECURSIVE TrimStart(_)
TrimStart(s) == IF s # <<>> /\ Head(s) \in WS THEN TrimStart(Tail(s)) ELSE s

RECURSIVE TrimEnd(_)
TrimEnd(s) ==
  IF s # <<>> /\ s[Len(s)] \in WS THEN TrimEnd(SubSeq(s, 1, Len(s) - 1)) ELSE s

\* String.prototype.trim
Trim(s) == TrimEnd(TrimStart(s))

\* /^[0-9+\s-]+$/
PhoneChars == {"0", "1", "2", "6", "+", "-"} \cup WS
PhoneRegex(s) == s # <<>> /\ \A i \in 1..Len(s) : s[i] \in PhoneChars

\* the form contents a user can have typed: valid ones, and ones that fail
\* one check or several
OrderForm(n, p, c) == [fullName |-> n, phone |-> p, city |-> c]
Forms ==
  {OrderForm(<<"A">>, <<"+", "2", " ", "6", "-", "1">>, <<"C">>),
   OrderForm(<<" ", "A", " ">>, <<"\t", "0", "6", " ">>, <<" ", "C">>),
   OrderForm(<<" ">>, <<"6", "x", "1">>, <<>>),
   OrderForm(<<"A">>, <<"\t">>, <<" ">>),
   OrderForm(<<"A">>, <<"6", "x", "1">>, <<" ">>),
   OrderForm(<<"A">>, <<"6", "-", "1">>, <<" ">>)}

\* sessionStorage 'checkoutCart': no entry, an unparsable entry, the JSON of
\* an empty array, the JSON of an array of items
Absent == "absent"
Snapshots == {Absent, "unparsable", "[]", "[items]"}

\* items after  getItem(..) || '[]'  and JSON.parse (items stays [] when the
\* parse throws): "none" for an empty array, "some" otherwise
ItemsOfAny(snapshot) == "some"
ItemsOf(snapshot) == IF snapshot = "[items]" THEN "some" ELSE "none"

\* ------------------------------------------------------------- validation
validateCityBeforePhone(present, f, snapshot) ==
  IF ~present THEN "noForm"
  ELSE LET fullName == Trim(f.fullName)
           phone == Trim(f.phone)
           city == Trim(f.city)
       IN IF fullName = <<>> THEN "Please enter your full name"
          ELSE IF city = <<>> THEN "Please enter your city"
          ELSE IF phone = <<>> THEN "Please enter your phone number"
          ELSE IF ~PhoneRegex(phone) THEN "Please enter a valid phone number"
          ELSE IF ItemsOf(snapshot) = "none" THEN "Your cart is empty"
          ELSE "ok"

\* validateOrderForm: "ok", or the alert it shows, or "noForm" (returns false
\* without an alert)
validateOrderForm(present, f, snapshot) ==
  IF ~present THEN "noForm"
  ELSE LET fullName == Trim(f.fullName)
           phone == Trim(f.phone)
           city == Trim(f.city)
       IN IF fullName = <<>> THEN "Please enter your full name"
          ELSE IF phone = <<>> THEN "Please enter your phone number"
          ELSE IF ~PhoneRegex(phone) THEN "Please enter a valid phone number"
          ELSE IF city = <<>> THEN "Please enter your city"
          ELSE IF ItemsOf(snapshot) = "none" THEN "Your cart is empty"
          ELSE "ok"

\* buildOrderPayload: the form's values as they are (not trimmed) and the
\* snapshot's items
buildOrderPayload(f, snapshot, now) ==
  [fullName |-> f.fullName, phone |-> f.phone, city |-> f.city,
   items |-> ItemsOf(snapshot), date |-> now]

NoOrder ==
  [fullName |-> <<>>, phone |-> <<>>, city |-> <<>>, items |-> "none", date |-> 0]

\* -------------------------------------------------------------------- URLs
SchemeHttp == {"http://", "HTTP://"}
SchemeHttps == {"https://"}

\* /^https?:\/\//i
IsHttpUrl(s) == s # <<>> /\ Head(s) \in SchemeHttp \cup SchemeHttps

\* a scheme token without its two slashes
NoSlash(tok) ==
  CASE tok = "http://" -> "http:"
    [] tok = "HTTP://" -> "HTTP:"
    [] tok = "https://" -> "https:"
    [] tok = "ftp://" -> "ftp:"
    [] OTHER -> tok

\* replace(/\/+$/, ''): the trailing slashes go, those of a bare scheme too
RECURSIVE StripSlashes(_)
StripSlashes(s) ==
  IF s = <<>> THEN s
  ELSE LET last == s[Len(s)]
           init == SubSeq(s, 1, Len(s) - 1)
       IN IF last = "/" THEN StripSlashes(init)
          ELSE IF NoSlash(last) # last THEN init \o <<NoSlash(last)>>
          ELSE s

\* replace(/^http:\/\//i, 'https://')
UpgradeSkipped(s) == s
UpgradeToHttps(s) ==
  IF s # <<>> /\ Head(s) \in SchemeHttp THEN <<"https://">> \o Tail(s) ELSE s

NoUrl == <<>>

\* what Store.getOrdersApiUrl() can return (null and undefined read as '')
StoreUrls ==
  {<<>>, <<" ">>, <<"ftp://", "h">>, <<"https://", "h">>,
   <<" ", "HTTP://", "h", "/", " ">>, <<"http://">>}

\* a read of the configured URL that threw
ReadThrew == <<"!">>

\* the page's declarations: meta[name=orders-api-url] content and the form's
\* data-orders-api-url (an absent attribute reads as '')
PageDecl(m, a) == [meta |-> m, formAttr |-> a]
PageDecls ==
  {PageDecl(<<>>, <<>>),
   PageDecl(<<" ">>, <<" ", "http://", "h", "/">>),
   PageDecl(<<"ftp://", "h">>, <<"https://", "h">>),
   PageDecl(<<"https://", "h", " ">>, <<>>)}

\* the pages the script can be loaded in
Page(f, b, s, d) == [form |-> f, button |-> b, https |-> s, decl |-> d]
Pages ==
  {Page(TRUE, TRUE, TRUE, PageDecl(<<" ">>, <<" ", "http://", "h", "/">>)),
   Page(TRUE, TRUE, FALSE, PageDecl(<<"ftp://", "h">>, <<"https://", "h">>)),
   Page(TRUE, FALSE, TRUE, PageDecl(<<"https://", "h", " ">>, <<>>)),
   Page(TRUE, TRUE, FALSE, PageDecl(<<>>, <<>>)),
   Page(FALSE, FALSE, FALSE, PageDecl(<<>>, <<>>))}

\* getFallbackOrdersApiUrl
getFallbackOrdersApiUrl(decl) ==
  LET fromMeta == IF decl.meta # <<>> THEN Trim(decl.meta) ELSE <<>>
      raw == IF fromMeta = <<>>
             THEN (IF decl.formAttr # <<>> THEN Trim(decl.formAttr) ELSE <<>>)
             ELSE fromMeta
  IN IF raw # <<>> /\ IsHttpUrl(raw) THEN raw ELSE NoUrl

tryGetUnchecked(raw) == Trim(raw)

\* tryGet: the trimmed configured URL when it is an HTTP(S) URL, else null
tryGet(raw) ==
  LET url == Trim(raw) IN IF url # <<>> /\ IsHttpUrl(url) THEN url ELSE NoUrl

\* sendOrderToApi up to the request: the URL it would fetch, or NoUrl when it
\* resolves false without a request
RequestUrl(apiUrl, https) ==
  LET url == StripSlashes(apiUrl)
  IN IF url = <<>> \/ ~IsHttpUrl(url) THEN NoUrl
     ELSE IF https THEN UpgradeToHttps(url) ELSE url

\* Response.ok
ResponseOk(status) == status >= 200 /\ status <= 299

\* HTTP statuses a response can carry
Statuses == {200, 299, 300, 500}

\* ------------------------------------------------------------------- state
VARIABLES
  page,              \* the loaded page: form and button present, protocol, declared URL
  form,              \* the order form's current field values
  checkoutCart,      \* sessionStorage 'checkoutCart'
  submitInProgress,  \* the single-flight guard
  pc,                \* where the submission's promise chain stands
  orderData,         \* the Order Draft of the submission
  btn,               \* #submit-order-btn: disabled, textContent
  originalText,      \* the button text handleSubmit captured
  resolver,          \* the getOrdersApiUrlWhenReady call of the submission
  send,              \* the sendOrderToApi call of the submission
  sub,               \* what the submission has done so far
  navigated,         \* window.location.href = './' was assigned
  alertCount,        \* alert() calls since the page loaded
  lastAlert,         \* the last alert's message
  submitEvents,      \* submit events delivered
  inFlight,          \* promise chains started and not yet settled
  secrets,           \* server: GITHUB_TOKEN, GITHUB_OWNER and GITHUB_REPO are all set
  doc,               \* server: data/store-data.json in the repository, with its sha
  inv,               \* server: the handler invocations
  now                \* server: Date.now()

clientVars ==
  <<page, form, checkoutCart, submitInProgress, pc, orderData, btn,
    originalText, resolver, send, sub, navigated, alertCount, lastAlert,
    submitEvents, inFlight>>
serverVars == <<secrets, doc, inv, now>>
vars == <<clientVars, serverVars>>

\* positions at which the chain waits for a macrotask, so that a submit event
\* can be delivered; the others are microtask continuations
EventPoints == {"idle", "waitReady", "waitRefresh", "waitFetch", "waitText"}

NoResolver == [status |-> "idle", value |-> NoUrl, reads |-> <<>>, refreshes |-> 0]
NoSend ==
  [url |-> NoUrl, requests |-> 0, status |-> 0, body |-> "none", result |-> "none"]
\* succ, fail: success and failure messages shown; doneCalls: calls of
\* done(); outcome: the state the last done() call entered; saveCalls: calls
\* of Store.addOrder; localAdds: orders it appended; fallbacks: calls of
\* saveOrderToLocalStore; remoteOk: the POST resolved true; resets: completed
\* clearCartAfterOrder calls; unhandled: the chain ended in an unhandled
\* rejection
NoSub ==
  [succ |-> 0, fail |-> 0, doneCalls |-> 0, outcome |-> "none",
   saveCalls |-> 0, localAdds |-> 0, fallbacks |-> 0, remoteOk |-> FALSE,
   resets |-> 0, unhandled |-> FALSE]

\* how a collaborator call can go
CartBehaviours == {"ok", "throws", "absent"}   \* window.clearCartAfterOrder
LookupBehaviours == {"ok", "throws"}           \* t(key)
StoreBehaviours == {"ok", "throws", "absent"}  \* Store.addOrder

\* the order page as loaded
ClientInit ==
  /\ page \in Pages
  /\ form \in Forms
  /\ checkoutCart \in Snapshots
  /\ submitInProgress = FALSE
  /\ pc = "idle"
  /\ orderData = NoOrder
  /\ btn = [disabled |-> FALSE, text |-> "original"]
  /\ originalText = "original"
  /\ resolver = NoResolver
  /\ send = NoSend
  /\ sub = NoSub
  /\ navigated = FALSE
  /\ alertCount = 0
  /\ lastAlert = "none"
  /\ submitEvents = 0
  /\ inFlight = 0

\* ------------------------------------------------- effects of the outcomes
\* the part of the state done() and its callees write
Effects ==
  [sip |-> submitInProgress, btn |-> btn, cart |-> checkoutCart,
   nav |-> navigated, alertCount |-> alertCount, lastAlert |-> lastAlert,
   sub |-> sub]

Commit(e) ==
  /\ submitInProgress' = e.sip
  /\ btn' = e.btn
  /\ checkoutCart' = e.cart
  /\ navigated' = e.nav
  /\ alertCount' = e.alertCount
  /\ lastAlert' = e.lastAlert
  /\ sub' = e.sub

Alert(e, msg) == [e EXCEPT !.alertCount = @ + 1, !.lastAlert = msg]

\* saveOrderToLocalStore: [e, saved]
saveOrderToLocalStore(e, storeB) ==
  LET e0 == [e EXCEPT !.sub.fallbacks = @ + 1]
  IN IF storeB = "absent" THEN [e |-> e0, saved |-> FALSE]
     ELSE IF storeB = "throws"
     THEN [e |-> [e0 EXCEPT !.sub.saveCalls = @ + 1], saved |-> FALSE]
     ELSE [e |-> [e0 EXCEPT !.sub.saveCalls = @ + 1, !.sub.localAdds = @ + 1],
           saved |-> TRUE]

\* finishOrderSuccess: [e, threw]
finishOrderSuccess(e, cartB, tB) ==
  IF cartB = "throws" THEN [e |-> e, threw |-> TRUE]
  ELSE LET e1 == IF cartB = "ok" THEN [e EXCEPT !.sub.resets = @ + 1] ELSE e
           e2 == [e1 EXCEPT !.cart = Absent]
       IN IF tB = "throws" THEN [e |-> e2, threw |-> TRUE]
          ELSE [e |-> [Alert(e2, "orderSuccess") EXCEPT !.sub.succ = @ + 1,
                                                        !.nav = TRUE],
                threw |-> FALSE]

\* finishOrderFailure: [e, threw]
finishOrderFailure(e, tB) ==
  LET e1 == IF page.button THEN [e EXCEPT !.btn.disabled = FALSE] ELSE e
  IN IF page.button /\ tB = "throws" THEN [e |-> e1, threw |-> TRUE]
     ELSE LET e2 == IF page.button THEN [e1 EXCEPT !.btn.text = "confirmOrder"]
                    ELSE e1
          IN [e |-> [Alert(e2, "orderSaveError") EXCEPT !.sub.fail = @ + 1],
              threw |-> FALSE]

GuardLeftSet == TRUE

\* the guard as done() leaves it
GuardAfterDone == FALSE

\* done(saved): [e, threw]
done(e, saved, cartB, tB) ==
  LET e0 == [e EXCEPT !.sip = GuardAfterDone,
                      !.btn = IF page.button
                              THEN [disabled |-> FALSE, text |-> originalText]
                              ELSE @,
                      !.sub.doneCalls = @ + 1,
                      !.sub.outcome = IF saved THEN "Success" ELSE "Failed"]
  IN IF saved THEN finishOrderSuccess(e0, cartB, tB)
     ELSE IF tB = "throws" THEN [e |-> e0, threw |-> TRUE]
     ELSE finishOrderFailure(e0, tB)

\* ----------------------------------------------------------- submit events
ChainVars == <<pc, orderData, originalText, resolver, send, inFlight>>
OutcomeVars ==
  <<submitInProgress, btn, checkoutCart, navigated, alertCount, lastAlert, sub>>

GuardNeverBlocks == FALSE

\* line 241: whether handleSubmit returns at the single-flight guard
GuardBlocks == submitInProgress

\* the user edits the form between submissions (a chain in flight never reads
\* the form again, and a submit event during it returns before reading it)
EditForm ==
  /\ pc = "idle"
  /\ \E f \in Forms : f # form /\ form' = f
  /\ UNCHANGED <<page, ChainVars, OutcomeVars, submitEvents, serverVars>>

SubmitEvent ==
  /\ pc \in EventPoints
  /\ submitEvents < MaxSubmits
  /\ submitEvents' = submitEvents + 1
  /\ UNCHANGED <<page, form, serverVars>>

\* handleSubmit, lines 241-244: a submission is in flight
SubmitIgnored ==
  /\ SubmitEvent
  /\ GuardBlocks
  /\ UNCHANGED <<ChainVars, OutcomeVars>>

\* handleSubmit, line 245: validateOrderForm returns false
SubmitRejected ==
  /\ SubmitEvent
  /\ ~GuardBlocks
  /\ LET v == validateOrderForm(page.form, form, checkoutCart)
     IN /\ v # "ok"
        /\ Commit(IF v = "noForm" THEN Effects ELSE Alert(Effects, v))
  /\ UNCHANGED ChainVars

\* handleSubmit, lines 247-254: buildOrderPayload throws
SubmitBuildFailed ==
  /\ SubmitEvent
  /\ ~GuardBlocks
  /\ validateOrderForm(page.form, form, checkoutCart) = "ok"
  /\ Commit(Alert(Effects, "Unable to build order"))
  /\ UNCHANGED ChainVars

\* handleSubmit, lines 258-262: the lookup of the button's 'submitting' text
\* throws after the button was disabled
SubmitLookupFailed ==
  /\ SubmitEvent
  /\ ~GuardBlocks
  /\ validateOrderForm(page.form, form, checkoutCart) = "ok"
  /\ page.button
  /\ Commit([Effects EXCEPT !.btn.disabled = TRUE])
  /\ UNCHANGED ChainVars

\* handleSubmit, lines 245-279: the submission enters Submitting
SubmitStarted ==
  /\ SubmitEvent
  /\ ~GuardBlocks
  /\ validateOrderForm(page.form, form, checkoutCart) = "ok"
  /\ orderData' = buildOrderPayload(form, checkoutCart, submitEvents')
  /\ originalText' = IF page.button THEN btn.text ELSE "original"
  /\ Commit([Effects EXCEPT
       !.btn = IF page.button THEN [disabled |-> TRUE, text |-> "submitting"]
               ELSE @,
       !.sip = TRUE,
       !.sub = NoSub])
  /\ resolver' = [NoResolver EXCEPT !.status = "pending"]
  /\ send' = NoSend
  /\ pc' = "resolve"
  /\ inFlight' = inFlight + 1

\* ---------------------------------------------------------------- resolver
Fulfil(url) ==
  /\ resolver' = [resolver EXCEPT !.status = "fulfilled", !.value = url]
  /\ pc' = "resolved"

RejectUnhandled(r) ==
  /\ resolver' = [r EXCEPT !.status = "rejected"]
  /\ pc' = "idle"

\* a rejected resolver skips the then-handler of line 280: the chain goes to
\* the catch-handler of line 301
Reject(r) ==
  /\ resolver' = [r EXCEPT !.status = "rejected"]
  /\ pc' = "catch"

ResolverFrame ==
  UNCHANGED <<page, form, orderData, originalText, send, inFlight,
              OutcomeVars, submitEvents, serverVars>>

\* lines 215-216: no Store, or no Store.getOrdersApiUrl
ResolveNoStore ==
  /\ pc = "resolve"
  /\ Fulfil(getFallbackOrdersApiUrl(page.decl))
  /\ ResolverFrame

\* lines 217-222: wait for Store.ready (or for a resolved promise)
ResolveWaitStore ==
  /\ pc = "resolve"
  /\ pc' = "waitReady"
  /\ UNCHANGED resolver
  /\ ResolverFrame

\* Store.ready rejects
ReadyRejects ==
  /\ pc = "waitReady"
  /\ Reject(resolver)
  /\ ResolverFrame

\* lines 222-234: Store.ready resolved; first read, then the refresh if any
ReadyResolves ==
  /\ pc = "waitReady"
  /\ \E raw \in StoreUrls \cup {ReadThrew} :
       LET r == [resolver EXCEPT !.reads = Append(@, raw)]
       IN IF raw = ReadThrew THEN Reject(r)
          ELSE IF tryGet(raw) # NoUrl
          THEN /\ resolver' = [r EXCEPT !.status = "fulfilled", !.value = tryGet(raw)]
               /\ pc' = "resolved"
          ELSE \E refresh \in {"absent", "throws", "pending"} :
                 IF refresh = "absent"
                 THEN /\ resolver' = [r EXCEPT !.status = "fulfilled",
                                       !.value = getFallbackOrdersApiUrl(page.decl)]
                      /\ pc' = "resolved"
                 ELSE IF refresh = "throws"
                 THEN Reject([r EXCEPT !.refreshes = @ + 1])
                 ELSE /\ resolver' = [r EXCEPT !.refreshes = @ + 1]
                      /\ pc' = "waitRefresh"
  /\ ResolverFrame

\* Store.refreshFromRemote() rejects
RefreshRejects ==
  /\ pc = "waitRefresh"
  /\ Reject(resolver)
  /\ ResolverFrame

\* lines 227-231: the refresh resolved; second read, then the page fallback
RefreshResolves ==
  /\ pc = "waitRefresh"
  /\ \E raw \in StoreUrls \cup {ReadThrew} :
       LET r == [resolver EXCEPT !.reads = Append(@, raw)]
       IN IF raw = ReadThrew THEN Reject(r)
          ELSE /\ resolver' =
                    [r EXCEPT !.status = "fulfilled",
                              !.value = IF tryGet(raw) # NoUrl THEN tryGet(raw)
                                        ELSE getFallbackOrdersApiUrl(page.decl)]
               /\ pc' = "resolved"
  /\ ResolverFrame

\* --------------------------------------------------------------- submitter
SendFrame ==
  UNCHANGED <<page, form, orderData, originalText, inFlight, OutcomeVars,
              submitEvents, serverVars>>

\* sendOrderToApi settles with apiOk
Settle(apiOk) ==
  /\ send' = [send EXCEPT !.result = IF apiOk THEN "true" ELSE "false"]
  /\ pc' = "apiDone"

\* what sendOrderToApi resolves to once the response body text was read
\* (lines 180-185)
ResultOfResponse(status) == ResponseOk(status)

\* what sendOrderToApi resolves to when reading the body text rejects: the
\* rejection reaches the catch of lines 188-191
ResultOfUnreadableBody(status) == FALSE

\* lines 280-283 and 138-168: the resolver gave a URL; sendOrderToApi runs up
\* to its request
ResolvedSend ==
  /\ pc = "resolved"
  /\ resolver.value # NoUrl
  /\ LET url == RequestUrl(resolver.value, page.https)
     IN IF url = NoUrl THEN Settle(FALSE)
        ELSE \E stringifyThrows \in BOOLEAN :
               IF stringifyThrows THEN Settle(FALSE)
               ELSE /\ send' = [send EXCEPT !.url = url, !.requests = @ + 1]
                    /\ pc' = "waitFetch"
  /\ resolver' = NoResolver
  /\ SendFrame

\* fetch rejects (network, CORS): lines 188-191
FetchFails ==
  /\ pc = "waitFetch"
  /\ Settle(FALSE)
  /\ UNCHANGED resolver
  /\ SendFrame

\* fetch resolves with a response: lines 169-173
FetchResponds ==
  /\ pc = "waitFetch"
  /\ \E status \in Statuses : send' = [send EXCEPT !.status = status]
  /\ pc' = "waitText"
  /\ UNCHANGED resolver
  /\ SendFrame

\* r.text() resolves: lines 173-186
TextResolves ==
  /\ pc = "waitText"
  /\ send' = [send EXCEPT !.body = "read",
                !.result = IF ResultOfResponse(send.status) THEN "true" ELSE "false"]
  /\ pc' = "apiDone"
  /\ UNCHANGED resolver
  /\ SendFrame

\* r.text() rejects: lines 188-191
TextRejects ==
  /\ pc = "waitText"
  /\ send' = [send EXCEPT !.body = "unreadable",
                !.result = IF ResultOfUnreadableBody(send.status) THEN "true"
                           ELSE "false"]
  /\ pc' = "apiDone"
  /\ UNCHANGED resolver
  /\ SendFrame

\* ------------------------------------------------------------- coordinator
CoordFrame == UNCHANGED <<page, form, submitEvents, serverVars>>

\* the chain settles (fulfilled, or rejected with no handler left) and the
\* closure of its handleSubmit call is gone
ChainEnds(e, rejected) ==
  /\ Commit([e EXCEPT !.sub.unhandled = rejected])
  /\ pc' = "idle"
  /\ inFlight' = inFlight - 1
  /\ orderData' = NoOrder
  /\ originalText' = "original"
  /\ resolver' = NoResolver
  /\ send' = NoSend

\* the then-handler threw: the chain goes on to the catch-handler of line 301
ChainThrows(e) ==
  /\ Commit(e)
  /\ pc' = "catch"
  /\ resolver' = NoResolver
  /\ send' = NoSend
  /\ UNCHANGED <<inFlight, orderData, originalText>>

\* lines 292-299: the resolver gave no URL
ResolvedNoUrl ==
  /\ pc = "resolved"
  /\ resolver.value = NoUrl
  /\ \E storeB \in StoreBehaviours, cartB \in CartBehaviours,
        tB \in LookupBehaviours, tB2 \in LookupBehaviours :
       LET s1 == saveOrderToLocalStore(Effects, storeB)
           d1 == done(s1.e, s1.saved, cartB, tB)
           d2 == IF d1.threw THEN done(d1.e, FALSE, cartB, tB2) ELSE d1
       IN IF d2.threw THEN ChainThrows(d2.e) ELSE ChainEnds(d2.e, FALSE)
  /\ CoordFrame

\* lines 283-290: sendOrderToApi settled
ApiThen ==
  /\ pc = "apiDone"
  /\ \E storeB \in StoreBehaviours, cartB \in CartBehaviours,
        tB \in LookupBehaviours :
       LET apiOk == send.result = "true"
           s1 == IF apiOk
                 THEN [e |-> [Effects EXCEPT !.sub.remoteOk = TRUE], saved |-> TRUE]
                 ELSE saveOrderToLocalStore(Effects, storeB)
           d1 == done(s1.e, s1.saved, cartB, tB)
       IN IF d1.threw THEN ChainThrows(d1.e) ELSE ChainEnds(d1.e, FALSE)
  /\ CoordFrame

\* lines 301-305: the catch-handler
CatchHandler ==
  /\ pc = "catch"
  /\ \E storeB \in StoreBehaviours, cartB \in CartBehaviours,
        tB \in LookupBehaviours :
       LET s1 == saveOrderToLocalStore(Effects, storeB)
           d1 == done(s1.e, s1.saved, cartB, tB)
       IN ChainEnds(d1.e, d1.threw)
  /\ CoordFrame


\* ================================================================== server
\* api/orders.js: each invocation runs synchronously up to its first await
\* (getFile), then resumes when the GET settles, then when the PUT settles.
Reqs == 1..NumReq

Methods == {"OPTIONS", "POST", "GET"}

\* req.headers: origin ("" when absent) and referer (absent, a URL, or text
\* that is no URL)
Header(o, r) == [origin |-> o, referer |-> r]
Headers == {Header("", "none"), Header("", "valid"), Header("", "invalid")}

\* ids a request body can carry (0: none); a time-derived id is the clock value
BodyIds == {0, 9}

\* req.body: its JavaScript type, for a string what it holds, and for an
\* object the fields the handler looks at
Body(t, j, n, ph, id) == [type |-> t, json |-> j, fullName |-> n, phone |-> ph, id |-> id]
Bodies ==
  {Body("undefined", "", FALSE, FALSE, 0),
   Body("array", "", FALSE, FALSE, 0),
   Body("object", "", FALSE, FALSE, 0),
   Body("string", "empty", FALSE, FALSE, 0),
   Body("string", "malformed", FALSE, FALSE, 0),
   Body("string", "null", FALSE, FALSE, 0),
   Body("string", "array", FALSE, FALSE, 0)}
  \cup {Body("object", "", TRUE, TRUE, id) : id \in BodyIds}
  \cup {Body("object", "", FALSE, TRUE, 0), Body("string", "object", TRUE, FALSE, 0)}

\* line 79: the origin the handler computes; "throws" when new URL(referer)
\* throws
OriginOf(h) ==
  IF h.origin # "" THEN h.origin
  ELSE IF h.referer = "none" THEN "*"
  ELSE IF h.referer = "valid" THEN "r"
  ELSE "throws"

\* parseBody: "throws", or the kind of value it returns with its fields
parseBody(b) ==
  LET none == [kind |-> "null", fullName |-> FALSE, phone |-> FALSE, id |-> 0]
  IN IF b.type = "undefined" THEN none
     ELSE IF b.type = "object"
     THEN [kind |-> "object", fullName |-> b.fullName, phone |-> b.phone, id |-> b.id]
     ELSE IF b.type = "string"
     THEN (IF b.json = "empty" THEN [none EXCEPT !.kind = "object"]
           ELSE IF b.json = "malformed" THEN [none EXCEPT !.kind = "throws"]
           ELSE IF b.json = "object"
           THEN [kind |-> "object", fullName |-> b.fullName, phone |-> b.phone,
                 id |-> b.id]
           ELSE [none EXCEPT !.kind = b.json])
     ELSE [none EXCEPT !.kind = "throws"]

\* corsHeaders: the cross-origin headers for an origin
NoHeaders == [allowOrigin |-> "", methods |-> "", headers |-> "", maxAge |-> 0]
corsHeadersNone(origin) == NoHeaders
corsHeaders(origin) ==
  [allowOrigin |-> IF origin = "" THEN "*" ELSE origin,
   methods |-> "GET, POST, OPTIONS",
   headers |-> "Content-Type, Accept",
   maxAge |-> 86400]

\* setCors(res, origin): the headers of res after it
setCors(origin) == corsHeaders(origin)

\* setCors(res, origin) followed by res.status(..).json(..) or res.end()
Response(status, success, error, origin, id) ==
  [status |-> status, success |-> success, error |-> error,
   cors |-> setCors(origin), id |-> id]

NoResponse ==
  [status |-> 0, success |-> "none", error |-> "", cors |-> NoHeaders, id |-> 0]

NoFile == [sha |-> 0, orders |-> <<>>]

NewInvocation ==
  [pc |-> "new", origin |-> "", order |-> [req |-> 0, id |-> 0],
   file |-> NoFile, putSha |-> 0, put |-> "none", resp |-> NoResponse]

\* lines 82-130: the rejection the handler answers with before it touches the
\* store, or "accepted"
Rejection(method, hasSecrets, body) ==
  IF method = "OPTIONS" THEN [status |-> 204, success |-> "none", error |-> ""]
  ELSE IF method # "POST"
  THEN [status |-> 405, success |-> "false", error |-> "Method not allowed"]
  ELSE IF ~hasSecrets
  THEN [status |-> 500, success |-> "false", error |-> "Orders API not configured"]
  ELSE IF parseBody(body).kind = "throws"
  THEN [status |-> 400, success |-> "false", error |-> "Invalid JSON body"]
  ELSE IF parseBody(body).kind \notin {"object", "array"}
  THEN [status |-> 400, success |-> "false",
        error |-> "Request body must be a JSON object"]
  ELSE IF ~parseBody(body).fullName /\ ~parseBody(body).phone
  THEN [status |-> 400, success |-> "false",
        error |-> "Order must include fullName and phone"]
  ELSE [status |-> 0, success |-> "none", error |-> "accepted"]

\* line 132: order.id = order.id || 'ord-' + Date.now()
AssignId(bodyId, clock) == IF bodyId # 0 THEN bodyId ELSE clock

\* lines 45 and 143: the sha the PUT carries
PutShaMissing(file) == 0
PutSha(file) == file.sha

\* lines 140-141: the orders array with the new order put first
UnshiftAtEnd(d, order) == (IF d.hasOrders THEN d.orders ELSE <<>>) \o <<order>>
Unshift(d, order) == <<order>> \o (IF d.hasOrders THEN d.orders ELSE <<>>)

\* lines 144-145 and 147-150: the response after the read-modify-write
SaveResponse(saved, origin, id) ==
  IF saved THEN Response(200, "true", "", origin, id)
  ELSE Response(500, "false", "Failed to save order", origin, 0)

ServerFrame == UNCHANGED <<clientVars, secrets>>

\* handler, lines 78-134, for one request: from its arrival to the first
\* await; Date.now() gives the value it gave last or a later one
HandlerStart(i, method, h, body) ==
  LET origin == OriginOf(h)
      rej == Rejection(method, secrets, body)
  IN IF origin = "throws"
     THEN inv' = [inv EXCEPT ![i].pc = "crashed"] /\ UNCHANGED now
     ELSE IF rej.error # "accepted"
     THEN /\ inv' = [inv EXCEPT ![i].pc = "done", ![i].origin = origin,
                       ![i].resp = Response(rej.status, rej.success,
                                            rej.error, origin, 0)]
          /\ UNCHANGED now
     ELSE \E t \in now..MaxClock :
            /\ now' = t
            /\ inv' = [inv EXCEPT ![i].pc = "getFile", ![i].origin = origin,
                         ![i].order = [req |-> i,
                                       id |-> AssignId(parseBody(body).id, t)]]

\* a request arrives and the handler runs to its first await
Receive(i) ==
  /\ inv[i].pc = "new"
  /\ \E method \in Methods, h \in Headers, body \in Bodies :
       HandlerStart(i, method, h, body)
  /\ UNCHANGED doc
  /\ ServerFrame

\* getFile throws (the GET fails or answers non-2xx), or the content does not
\* decode: lines 137-139 and 147-150
GetFileFails(i) ==
  /\ inv[i].pc = "getFile"
  /\ inv' = [inv EXCEPT ![i].pc = "done",
               ![i].resp = SaveResponse(FALSE, inv[i].origin, inv[i].order.id)]
  /\ UNCHANGED <<doc, now>>
  /\ ServerFrame

\* lines 137-143: the document was read and decoded, the PUT is sent
GetFileOk(i) ==
  /\ inv[i].pc = "getFile"
  /\ ~doc.corrupt
  /\ LET file == [sha |-> doc.sha, orders |-> Unshift(doc, inv[i].order)]
     IN inv' = [inv EXCEPT ![i].pc = "putFile", ![i].file = file,
                  ![i].putSha = PutSha(file)]
  /\ UNCHANGED <<doc, now>>
  /\ ServerFrame

\* the store applies a PUT whose sha is the document's current one
Applied(i) ==
  [sha |-> doc.sha + 1, corrupt |-> FALSE, hasOrders |-> TRUE,
   orders |-> inv[i].file.orders]

\* the PUT is applied and answered: lines 143-146
PutApplied(i) ==
  /\ inv[i].pc = "putFile"
  /\ inv[i].putSha = doc.sha
  /\ doc' = Applied(i)
  /\ inv' = [inv EXCEPT ![i].pc = "done", ![i].put = "applied",
               ![i].resp = SaveResponse(TRUE, inv[i].origin, inv[i].order.id)]
  /\ UNCHANGED now
  /\ ServerFrame

\* the PUT is applied but its response does not arrive: fetch throws
PutAnswerLost(i) ==
  /\ inv[i].pc = "putFile"
  /\ inv[i].putSha = doc.sha
  /\ doc' = Applied(i)
  /\ inv' = [inv EXCEPT ![i].pc = "done", ![i].put = "lost",
               ![i].resp = SaveResponse(FALSE, inv[i].origin, inv[i].order.id)]
  /\ UNCHANGED now
  /\ ServerFrame

\* the store rejects the PUT, its sha being stale: lines 51-54 and 147-150
PutRejected(i) ==
  /\ inv[i].pc = "putFile"
  /\ inv[i].putSha # doc.sha
  /\ inv' = [inv EXCEPT ![i].pc = "done", ![i].put = "stale",
               ![i].resp = SaveResponse(FALSE, inv[i].origin, inv[i].order.id)]
  /\ UNCHANGED <<doc, now>>
  /\ ServerFrame

\* the PUT does not reach the store, or the store fails: lines 51-54, 147-150
PutFails(i) ==
  /\ inv[i].pc = "putFile"
  /\ inv' = [inv EXCEPT ![i].pc = "done", ![i].put = "failed",
               ![i].resp = SaveResponse(FALSE, inv[i].origin, inv[i].order.id)]
  /\ UNCHANGED <<doc, now>>
  /\ ServerFrame

\* the document the handler finds: an orders array, no orders field, or
\* content that does not parse; order 0 was stored earlier
Doc(c, h, o) == [sha |-> 1, corrupt |-> c, hasOrders |-> h, orders |-> o]
InitialDocs ==
  {Doc(FALSE, TRUE, <<>>), Doc(FALSE, FALSE, <<>>), Doc(TRUE, FALSE, <<>>),
   Doc(FALSE, TRUE, <<[req |-> 0, id |-> 9]>>)}

ServerInit ==
  /\ secrets \in BOOLEAN
  /\ doc \in InitialDocs
  /\ inv = [i \in Reqs |-> NewInvocation]
  /\ now = 0

\* no request has arrived
ServerQuiet ==
  /\ secrets = TRUE
  /\ doc = Doc(FALSE, TRUE, <<>>)
  /\ inv = [i \in Reqs |-> NewInvocation]
  /\ now = 0

\* the page idle, nothing submitted
ClientQuiet ==
  /\ ClientInit
  /\ page = Page(FALSE, FALSE, FALSE, PageDecl(<<>>, <<>>))
  /\ form = OrderForm(<<" ">>, <<"6", "x", "1">>, <<>>)
  /\ checkoutCart = Absent

ServerNext ==
  \/ \E i \in Reqs : Receive(i)
  \/ \E i \in Reqs : GetFileFails(i)
  \/ \E i \in Reqs : GetFileOk(i)
  \/ \E i \in Reqs : PutApplied(i)
  \/ \E i \in Reqs : PutAnswerLost(i)
  \/ \E i \in Reqs : PutRejected(i)
  \/ \E i \in Reqs : PutFails(i)

\* ----------------------------------------------------------- specification
Events ==
  \/ EditForm
  \/ SubmitIgnored
  \/ SubmitRejected
  \/ SubmitBuildFailed
  \/ SubmitLookupFailed
  \/ SubmitStarted

\* the steps of a chain in flight: each is a collaborator call settling, or
\* a queued continuation running
Progress ==
  \/ ResolveNoStore
  \/ ResolveWaitStore
  \/ ReadyRejects
  \/ ReadyResolves
  \/ RefreshRejects
  \/ RefreshResolves
  \/ ResolvedSend
  \/ ResolvedNoUrl
  \/ FetchFails
  \/ FetchResponds
  \/ TextResolves
  \/ TextRejects
  \/ ApiThen
  \/ CatchHandler

Next == Events \/ Progress

Init == ClientInit /\ ServerQuiet

\* the client: the order page
Spec == Init /\ [][Next]_vars

\* the server: concurrent invocations of the handler
ServerStart == ClientQuiet /\ ServerInit
ServerSpec == ServerStart /\ [][ServerNext]_vars

\* every asynchronous collaborator call settles and every continuation runs
FairSpec == Spec /\ WF_vars(Progress)

\* ================================================================== claims
\* what a submit event that is not let through must leave alone
SubmissionState ==
  <<submitInProgress, pc, orderData, originalText, resolver, send, sub,
    inFlight, btn, checkoutCart, navigated>>

\* C1: single-flight. At most one submission is in Submitting, and a submit
\* event delivered while the guard is set changes nothing: no resolution, no
\* request, no local write, no message, guard and button as they were.
C1_SingleFlight ==
  /\ [](inFlight <= 1 /\ (submitInProgress => inFlight = 1))
  /\ [][(submitEvents' # submitEvents /\ submitInProgress)
          => UNCHANGED <<SubmissionState, alertCount, lastAlert>>]_vars

\* a submit event arrived after the submission in flight was built, while it
\* waits for the network
C1_Witness ==
  /\ submitInProgress
  /\ pc = "waitFetch"
  /\ submitEvents > orderData.date
  /\ send.requests = 1

\* C2: exactly one terminal notification per submission that entered
\* Submitting, whatever the collaborators do.
C2_ExactlyOneNotification ==
  (pc = "idle" /\ sub.doneCalls > 0) => sub.succ + sub.fail = 1

\* C4: the final state is Success iff the POST returned true or the local
\* fallback appended the order, and Failed iff the fallback was attempted and
\* failed.
C4_Outcome ==
  (pc = "idle" /\ sub.doneCalls > 0) =>
    /\ sub.outcome = "Success" <=> (sub.remoteOk \/ sub.localAdds > 0)
    /\ sub.outcome = "Failed" <=> (sub.fallbacks > 0 /\ sub.localAdds = 0)

\* C5: the guard is set before the first suspension point, it is false in
\* every state in which a terminal notification was issued and whenever no
\* chain is in flight, and it is true only between a submission's start and
\* its first done().
C5_GuardReset ==
  /\ pc \in EventPoints \ {"idle"} => submitInProgress
  /\ sub.succ + sub.fail > 0 => ~submitInProgress
  /\ pc = "idle" => ~submitInProgress
  /\ submitInProgress => (pc # "idle" /\ sub.doneCalls = 0)

\* a failure message after a thrown error: done() ran twice
C5_Witness ==
  /\ pc = "idle"
  /\ sub.doneCalls = 2
  /\ sub.fail = 1
  /\ ~submitInProgress

\* C6: when every collaborator call settles, a submission that entered
\* Submitting reaches Success or Failed with the guard false, so that the next
\* submit event is not stopped by the guard.
C6_Termination ==
  (pc # "idle") ~>
    (/\ pc = "idle"
     /\ ~submitInProgress
     /\ sub.outcome \in {"Success", "Failed"})

\* a submission that went through the network ended, and a later one started
C6_Witness ==
  /\ pc = "resolve"
  /\ submitInProgress
  /\ orderData.date = 2
  /\ alertCount = 1
  /\ lastAlert = "orderSaveError"

\* the checks of the claim, in its words
NameFails(f) == Trim(f.fullName) = <<>>
PhoneFails(f) ==
  \/ Trim(f.phone) = <<>>
  \/ \E i \in 1..Len(Trim(f.phone)) : Trim(f.phone)[i] \notin PhoneChars
CityFails(f) == Trim(f.city) = <<>>
CartFails(snapshot) == snapshot # "[items]"
FirstFailingAlerts(f, snapshot) ==
  IF NameFails(f) THEN {"Please enter your full name"}
  ELSE IF PhoneFails(f)
  THEN {"Please enter your phone number", "Please enter a valid phone number"}
  ELSE IF CityFails(f) THEN {"Please enter your city"}
  ELSE IF CartFails(snapshot) THEN {"Your cart is empty"}
  ELSE {}

\* C7: a submit event on the order form that fails a pre-submission check
\* shows exactly one message, that of the first failing check in the order
\* name, phone, city, cart, and builds no draft, starts no resolution or
\* request, writes nothing locally and leaves the guard false.
C7_ValidationRejects ==
  [][(/\ submitEvents' # submitEvents
      /\ ~submitInProgress
      /\ page.form
      /\ FirstFailingAlerts(form, checkoutCart) # {})
       => /\ alertCount' = alertCount + 1
          /\ lastAlert' \in FirstFailingAlerts(form, checkoutCart)
          /\ ~submitInProgress'
          /\ UNCHANGED SubmissionState]_vars

\* phone and city both fail: the phone message was shown, nothing started
C7_Witness ==
  /\ lastAlert = "Please enter a valid phone number"
  /\ CityFails(form)
  /\ alertCount = 1
  /\ submitEvents = 1
  /\ pc = "idle"
  /\ orderData = NoOrder

\* the configured URL a read gave is a valid HTTP(S) URL
ValidRead(raw) ==
  raw # ReadThrew /\ Trim(raw) # <<>> /\ Head(Trim(raw)) \in SchemeHttp \cup SchemeHttps

\* the page-declared URL: the meta content, or the form attribute when the
\* meta content is empty after trimming
DeclaredUrl(decl) ==
  IF Trim(decl.meta) # <<>> THEN Trim(decl.meta) ELSE Trim(decl.formAttr)
PageFallback(decl) ==
  IF DeclaredUrl(decl) # <<>> /\ Head(DeclaredUrl(decl)) \in SchemeHttp \cup SchemeHttps
  THEN DeclaredUrl(decl) ELSE NoUrl

\* C8: one resolver call refreshes at most once and reads at most twice; a
\* valid first read is returned with no refresh; else a valid read after the
\* single refresh is returned; else (or with no configuration source) the
\* page-declared URL when valid, and none otherwise.
C8_ResolverResult ==
  /\ resolver.refreshes <= 1
  /\ Len(resolver.reads) <= 2
  /\ Len(resolver.reads) = 2 => resolver.refreshes = 1
  /\ resolver.status = "fulfilled" =>
       IF resolver.reads # <<>> /\ ValidRead(resolver.reads[1])
       THEN resolver.value = Trim(resolver.reads[1]) /\ resolver.refreshes = 0
       ELSE IF Len(resolver.reads) = 2 /\ ValidRead(resolver.reads[2])
       THEN resolver.value = Trim(resolver.reads[2])
       ELSE resolver.value = PageFallback(page.decl)

\* the first read was empty and the read after the refresh gave the URL
C8_Witness ==
  /\ resolver.status = "fulfilled"
  /\ resolver.refreshes = 1
  /\ Len(resolver.reads) = 2
  /\ ~ValidRead(resolver.reads[1])
  /\ resolver.value = <<"HTTP://", "h", "/">>

\* C9: the resolver never ends rejected.
C9_ResolverNeverRejects == resolver.status # "rejected"

\* C10: sendOrderToApi resolves true iff a response with a status in
\* [200,299] was received, whatever happens to its body, and issues no
\* request for a URL that is not HTTP(S).
C10_SubmitterResult ==
  /\ pc = "apiDone" =>
       (send.result = "true" <=> (send.status >= 200 /\ send.status <= 299))
  /\ send.requests > 0 => (send.url # <<>> /\ Head(send.url) \in SchemeHttp \cup SchemeHttps)

\* the order of invocation i is in the Orders Document
InDocument(i) == \E k \in 1..Len(doc.orders) : doc.orders[k].req = i

\* C3: under concurrent invocations against a store that rejects a stale sha,
\* each write carries the sha its invocation read, an order answered 200 with
\* success true is in the document from then on, and an invocation whose
\* write is rejected as stale answers 500 with success false and changes
\* nothing.
C3_NoLostUpdate ==
  /\ [](\A i \in Reqs :
          /\ inv[i].pc = "putFile" => inv[i].putSha = inv[i].file.sha
          /\ (inv[i].resp.status = 200 /\ inv[i].resp.success = "true")
               => InDocument(i)
          /\ inv[i].put = "stale"
               => (inv[i].resp.status = 500 /\ inv[i].resp.success = "false"))
  /\ [][\A i \in Reqs :
          (inv[i].put = "none" /\ inv'[i].put = "stale") => doc' = doc]_vars

\* two invocations read the same sha; the second write was rejected and
\* answered 500, the first order is in the document
C3_Witness ==
  /\ inv[1].put = "applied"
  /\ inv[2].put = "stale"
  /\ inv[1].file.sha = inv[2].file.sha
  /\ inv[2].resp.status = 500
  /\ InDocument(1)
  /\ ~InDocument(2)

\* the orders array of a document, empty when the field is missing or is not
\* an array
PriorOrders(d) == IF d.hasOrders THEN d.orders ELSE <<>>

\* C11: an invocation that answers 200 writes a document whose orders field
\* is an array one longer than the array it found (empty when the field was
\* missing or not an array), with the new order at index 0 and the prior
\* orders unchanged, in their order, after it.
C11_PrependOnAccept ==
  [][\A i \in Reqs :
       (inv[i].resp.status # 200 /\ inv'[i].resp.status = 200) =>
         /\ doc'.hasOrders
         /\ Len(doc'.orders) = Len(PriorOrders(doc)) + 1
         /\ doc'.orders[1] = inv[i].order
         /\ \A k \in 1..Len(PriorOrders(doc)) :
              doc'.orders[k + 1] = PriorOrders(doc)[k]]_vars

\* both invocations answered 200; the later order is first and the order the
\* document held at the start is last
C11_Witness ==
  /\ inv[1].resp.status = 200
  /\ inv[2].resp.status = 200
  /\ Len(doc.orders) = 3
  /\ doc.orders[1].req = 2
  /\ doc.orders[2].req = 1
  /\ doc.orders[3].req = 0

\* a body that is, or is the JSON text of, an object
BodyIsObject(body) ==
  \/ body.type = "object"
  \/ body.type = "string" /\ body.json = "object"

\* the answer is the rejection with this status, and the store is not touched
RejectedWith(i, status) ==
  /\ inv'[i].pc = "done"
  /\ inv'[i].resp.status = status
  /\ inv'[i].resp.success = "false"

\* C12: the handler checks method, configuration, body and fields in this
\* order and answers with the first that fails: OPTIONS 204 with no body,
\* another method than POST 405, a missing secret 500 whatever the body, a
\* missing, malformed or non-object body 400, neither fullName nor phone 400,
\* each with success false; only a request passing all reaches the store.
C12_Classification ==
  [][\A i \in Reqs, method \in Methods, h \in Headers, body \in Bodies :
       (inv[i].pc = "new" /\ HandlerStart(i, method, h, body)) =>
         IF method = "OPTIONS"
         THEN /\ inv'[i].pc = "done"
              /\ inv'[i].resp.status = 204
              /\ inv'[i].resp.success = "none"
         ELSE IF method # "POST" THEN RejectedWith(i, 405)
         ELSE IF ~secrets THEN RejectedWith(i, 500)
         ELSE IF ~BodyIsObject(body) THEN RejectedWith(i, 400)
         ELSE IF ~body.fullName /\ ~body.phone THEN RejectedWith(i, 400)
         ELSE inv'[i].pc = "getFile" /\ inv'[i].resp = NoResponse]_vars

\* C14: an invocation of the handler that has ended has sent a response:
\* none ends in an unhandled fault, whatever the method, the headers, the body
\* and the store's behaviour.
C14_NeverCrashes ==
  \A i \in Reqs :
    inv[i].pc \notin {"new", "getFile", "putFile"} =>
      /\ inv[i].pc = "done"
      /\ inv[i].resp.status \in {200, 204, 400, 405, 500}
      /\ inv[i].resp.status # 204 =>
           inv[i].resp.success = (IF inv[i].resp.status = 200 THEN "true" ELSE "false")

\* C13: the orders of the document have pairwise distinct ids, and two
\* accepted orders never have the same id.
C13_UniqueIds ==
  /\ \A a, b \in 1..Len(doc.orders) :
       a # b => doc.orders[a].id # doc.orders[b].id
  /\ \A i, j \in Reqs :
       (i # j /\ inv[i].order.req = i /\ inv[j].order.req = j)
         => inv[i].order.id # inv[j].order.id

\* C15: every response the handler has sent, on every path, carries the
\* cross-origin headers: an allowed origin, the methods GET, POST, OPTIONS,
\* the headers Content-Type, Accept and max-age 86400.
C15_CorsOnEveryResponse ==
  \A i \in Reqs :
    inv[i].resp.status # 0 =>
      /\ inv[i].resp.cors.allowOrigin \in {"*", inv[i].origin}
      /\ inv[i].resp.cors.allowOrigin # ""
      /\ inv[i].resp.cors.methods = "GET, POST, OPTIONS"
      /\ inv[i].resp.cors.headers = "Content-Type, Accept"
      /\ inv[i].resp.cors.maxAge = 86400

\* a pre-flight answer and a persistence failure, both with the headers
C15_Witness ==
  /\ inv[1].resp.status = 204
  /\ inv[2].resp.error = "Failed to save order"
  /\ inv[1].resp.cors = corsHeaders(inv[1].origin)
  /\ inv[2].resp.cors = corsHeaders(inv[2].origin)

\* C17: the handler answers 200 with success true and the order's id only
\* when the write was applied, and 500 "Failed to save order" only when the
\* order is not in the document: a 200 implies the order is in the document
\* and a persistence 500 implies it is not.
C17_PersistenceReport ==
  \A i \in Reqs :
    /\ (inv[i].resp.status = 200 /\ inv[i].resp.success = "true")
         => (InDocument(i) /\ inv[i].resp.id = inv[i].order.id)
    /\ (inv[i].resp.status = 500 /\ inv[i].resp.error = "Failed to save order")
         => ~InDocument(i)

\* C16: a submission that ended in Success has removed the cart snapshot and
\* triggered the navigation; one that ended in Failed has done neither and
\* has not reset the cart: the snapshot is as it was, the submit control is
\* enabled and the coordinator is idle with the guard false.
C16_OutcomeEffects ==
  [][(pc # "idle" /\ pc' = "idle") =>
       /\ sub'.outcome = "Success" => (checkoutCart' = Absent /\ navigated')
       /\ sub'.outcome = "Failed" =>
            /\ checkoutCart' = "[items]"
            /\ sub'.resets = 0
            /\ ~navigated'
            /\ page.button => ~btn'.disabled
            /\ ~submitInProgress']_vars

\* C19: within one submission saveOrderToLocalStore is called at most once,
\* and never once the POST resolved true.
C19_RemoteXorLocal ==
  /\ sub.fallbacks <= 1
  /\ sub.saveCalls <= 1
  /\ sub.remoteOk => (sub.fallbacks = 0 /\ sub.localAdds = 0)

\* C18: every request of a submission goes to an http or https URL; on an
\* HTTPS page it never goes to an http URL, an http candidate being upgraded;
\* and an https candidate is never sent as http.
C18_ValidEndpoint ==
  [][(send'.requests = send.requests + 1) =>
       /\ send'.url # <<>>
       /\ Head(send'.url) \in SchemeHttp \cup SchemeHttps
       /\ page.https => Head(send'.url) \in SchemeHttps
       /\ (resolver.value # <<>> /\ Head(resolver.value) \in SchemeHttps)
            => Head(send'.url) \in SchemeHttps]_vars

\* on an HTTPS page whose only declared URL is an http one the request is in
\* flight to the https URL
C18_Witness ==
  /\ page.https
  /\ page.decl.formAttr = <<" ", "http://", "h", "/">>
  /\ pc = "waitFetch"
  /\ send.requests = 1
  /\ send.url = <<"https://", "h">>

\* C20: once a submission has ended in Success and the cart snapshot is
\* cleared, a further submit event starts nothing: it issues no request and
\* no local write, and when the form's fields are valid it is the empty-cart
\* check that rejects it.
C20_NoDuplicateAfterSuccess ==
  [][(/\ submitEvents' # submitEvents
      /\ pc = "idle"
      /\ sub.outcome = "Success"
      /\ checkoutCart = Absent)
       => /\ pc' = "idle"
          /\ UNCHANGED <<sub, send, resolver, orderData, inFlight,
                         submitInProgress, checkoutCart>>
          /\ (page.form /\ ~NameFails(form) /\ ~PhoneFails(form) /\ ~CityFails(form))
               => (lastAlert' = "Your cart is empty" /\ alertCount' = alertCount + 1)]_vars

\* after the success message a second submit event of the same valid form
\* was rejected as an empty cart
C20_Witness ==
  /\ pc = "idle"
  /\ sub.outcome = "Success"
  /\ sub.succ = 1
  /\ checkoutCart = Absent
  /\ submitEvents = 2
  /\ alertCount = 2
  /\ lastAlert = "Your cart is empty"
  /\ sub.localAdds + (IF sub.remoteOk THEN 1 ELSE 0) = 1

====
